---- MODULE Spec2Model ----
(***************************************************************************)
(* Model of the pogo-bot UI automation core: the PNG frame transport       *)
(* (io_fast.py), the template matcher (pogo_cv.py), the locator resolver   *)
(* / action driver (pogo_ui.py) and the tagging pass (pogo_states.py).     *)
(*                                                                         *)
(* The frame source is a byte stream; next_png is modelled byte for byte.  *)
(* Wall-clock time is a counter of ticks.                                  *)
(***************************************************************************)
EXTENDS Integers, Sequences, FiniteSets, TLC

VARIABLES
    src,        \* description of the byte stream the producer writes
    stream,     \* the bytes of the pipe (p.stdout), as written by the producer
    pos,        \* number of bytes of the pipe already consumed by read()
    closed,     \* the producer has closed its end of the pipe
    returned,   \* history: one entry per next_png call made on the transport
    now,        \* time.time(), in ticks
    chan,       \* the commands written to the ShellSession, in order
    op,         \* the pogo_ui / pogo_cv function the driver is running
    pc,         \* position inside that function
    arg,        \* its arguments
    t0,         \* wait_and_find: the local t0
    hit,        \* wait_and_find / tap_locator: the local hit
    frame,      \* the frame last returned by _next_frame
    before,     \* end_of_list_after_swipe: the local before
    ret,        \* the value the function returned
    exc,        \* the exception that left the function, "none" if none
    hist,       \* history of the running call, for stating the properties
    state,      \* tag_three_star_pass: the local state
    ppc,        \* position inside tag_three_star_pass, "off" when it is not run
    plog        \* history of the pass, for stating the properties

vars == <<src, stream, pos, closed, returned, now, chan, op, pc, arg, t0, hit, frame,
          before, ret, exc, hist, state, ppc, plog>>

transport == <<src, stream, pos, closed, returned>>
driver == <<now, chan, op, pc, arg, t0, hit, frame, before, ret, exc, hist>>
script == <<state, ppc, plog>>

------------------------------------------------------------------------------
(* Bounds of the model *)

MaxRecords == 2     \* records the producer writes to the pipe
MaxJunk == 8        \* bytes of garbage in front of the first record
MaxCalls == 6       \* next_png calls made in one behaviour of SpecPng
MaxFrames == 3      \* records the producer writes while a driver call runs
MaxTime == 6        \* the clock stops the model at this tick
MaxCost == 1        \* ticks one frame pull, or one match, can take
MaxTimeout == 2     \* timeouts passed to wait_and_find and exists, in ticks
MaxPoll == 2        \* poll intervals passed to wait_and_find, in ticks
MaxWait == 1        \* wait_after passed to the action driver, in ticks

------------------------------------------------------------------------------
(* Bytes *)

Min(a, b) == IF a < b THEN a ELSE b

RECURSIVE SumSeq(_)
SumSeq(s) == IF s = <<>> THEN 0 ELSE s[1] + SumSeq(Tail(s))

RECURSIVE Concat(_)
Concat(ss) == IF ss = <<>> THEN <<>> ELSE ss[1] \o Concat(Tail(ss))

Front(s) == SubSeq(s, 1, Len(s) - 1)

\* int.from_bytes(b, "big"), for a byte string of any length (0 for b"")
RECURSIVE FromBytes(_)
FromBytes(b) ==
    IF b = <<>> THEN 0 ELSE FromBytes(Front(b)) * 256 + b[Len(b)]

\* n.to_bytes(4, "big") for 0 <= n < 2^31
BE4(n) == << (n \div 16777216) % 256, (n \div 65536) % 256, (n \div 256) % 256, n % 256 >>

\* b"\x89PNG\r\n\x1a\n"
Magic == <<137, 80, 78, 71, 13, 10, 26, 10>>

IHDR == <<73, 72, 68, 82>>
IDAT == <<73, 68, 65, 84>>
IEND == <<73, 69, 78, 68>>

\* The checksum the producer appends to a segment (a stand-in for CRC-32:
\* four bytes determined by the type tag and the payload).
Checksum(ctype, data) == BE4((SumSeq(ctype \o data) % 65521) + 1)

\* One segment: length, type, payload, checksum.
Chunk(ctype, data) == BE4(Len(data)) \o ctype \o data \o Checksum(ctype, data)

\* A record: the signature followed by its segments; chunks is a sequence of
\* <<type, payload>> pairs.
RecordBytes(chunks) ==
    Magic \o Concat([i \in 1..Len(chunks) |-> Chunk(chunks[i][1], chunks[i][2])])

------------------------------------------------------------------------------
(* io_fast.PngStream: reading the pipe *)

\* out.read(n) on the buffered pipe at offset p: exactly n bytes, fewer only
\* when the stream ends first, b"" at end of stream.
Read(s, p, n) == SubSeq(s, p + 1, Min(p + n, Len(s)))

After(s, p, n) == Min(p + n, Len(s))

NoFrame(p) == [ok |-> FALSE, bytes |-> <<>>, pos |-> p]

\* The while True loop of next_png: s the stream, p the offset, buf the
\* bytes accumulated so far.
RECURSIVE ReadChunks(_, _, _)
ReadChunks(s, p, buf) ==
    LET raw_len == Read(s, p, 4)
        pA      == After(s, p, 4)
        length  == FromBytes(raw_len)
        ctype   == Read(s, pA, 4)
        pB      == After(s, pA, 4)
        data    == Read(s, pB, length)
        pC      == After(s, pB, length)
        crc     == Read(s, pC, 4)
        pD      == After(s, pC, 4)
        buf2    == buf \o raw_len \o ctype \o data \o crc
    IN  IF raw_len = <<>> THEN NoFrame(pA)
        ELSE IF ctype = <<>> \/ data = <<>> \/ crc = <<>> THEN NoFrame(pD)
        ELSE IF ctype = IEND THEN [ok |-> TRUE, bytes |-> buf2, pos |-> pD]
        ELSE ReadChunks(s, pD, buf2)

\* next_png with a sliding resynchronisation: a signature mismatch consumes
\* one byte instead of the eight bytes read.
NextPng_SlideOne(s, p) ==
    LET sig == Read(s, p, 8)
        p1  == After(s, p, 8)
    IN  IF sig = <<>> THEN NoFrame(p1)
        ELSE IF sig # Magic THEN NoFrame(After(s, p, 1))
        ELSE ReadChunks(s, p1, sig)

\* next_png on stream s at offset p: ok = FALSE is the None result; pos is
\* the offset the call leaves the pipe at.
NextPng(s, p) ==
    LET sig == Read(s, p, 8)
        p1  == After(s, p, 8)
    IN  IF sig = <<>> THEN NoFrame(p1)
        ELSE IF sig # Magic THEN NoFrame(p1)
        ELSE ReadChunks(s, p1, sig)

------------------------------------------------------------------------------
(* The frame source: what the screencap loop can write into the pipe *)

\* A record the producer writes: its segments (<<type, payload>> pairs) and
\* whether its bytes were corrupted on the way (last checksum byte altered).
Item(chunks, bad) == [chunks |-> chunks, bad |-> bad]

ItemBytes(it) ==
    LET b == RecordBytes(it.chunks)
    IN  IF it.bad THEN [b EXCEPT ![Len(b)] = (b[Len(b)] + 1) % 256] ELSE b

\* Segment layouts of the records of the transport specification.
RecordShapes ==
    { Item(<< <<IHDR, <<7>> >>, <<IEND, <<>> >> >>, FALSE),                   \* IEND of length 0
      Item(<< <<IHDR, <<7>> >>, <<IEND, <<1>> >> >>, FALSE),                  \* every payload non-empty
      Item(<< <<IHDR, <<7>> >>, <<IDAT, <<>> >>, <<IEND, <<1>> >> >>, FALSE), \* empty middle payload
      Item(<< <<IEND, <<1, 2>> >> >>, FALSE) }

RECURSIVE SeqsUpTo(_, _)
SeqsUpTo(S, n) ==
    IF n = 0 THEN { <<>> }
    ELSE LET shorter == SeqsUpTo(S, n - 1)
         IN  shorter \cup { Append(q, x) : q \in { r \in shorter : Len(r) = n - 1 }, x \in S }

\* The bytes of a stream description: junk bytes, the records, and the last
\* cut bytes of the final record missing (the stream closed mid-record).
StreamOf(d) ==
    LET whole == [i \in 1..d.junk |-> 0]
                 \o Concat([i \in 1..Len(d.recs) |-> ItemBytes(d.recs[i])])
    IN  SubSeq(whole, 1, Len(whole) - d.cut)

LongestRecord == CHOOSE n \in { Len(ItemBytes(it)) : it \in RecordShapes } :
                     \A it \in RecordShapes : Len(ItemBytes(it)) <= n

StreamDescs ==
    { d \in [recs : SeqsUpTo(RecordShapes, MaxRecords) \ { <<>> },
             junk : 0..MaxJunk,
             cut  : 0..LongestRecord] :
        d.cut < Len(ItemBytes(d.recs[Len(d.recs)])) }

\* Offset in the stream at which record i of description d starts.
RecordStart(d, i) ==
    d.junk + SumSeq([j \in 1..(i - 1) |-> Len(ItemBytes(d.recs[j]))])

\* The record of description d that starts at offset p.
RecordAt(d, p) == CHOOSE j \in 1..Len(d.recs) : RecordStart(d, j) = p

------------------------------------------------------------------------------
(* Specification of the transport alone *)

NoCall == [name |-> "none"]
NoHit == [found |-> FALSE]
NoImage == [ok |-> FALSE]
RetUnset == [kind |-> "unset"]
NoHist == [chan0 |-> <<>>, nones |-> FALSE, timedOut |-> FALSE, pulled |-> <<>>, sleeps |-> 0]
NoLast == [site |-> "-", ret |-> RetUnset, sent |-> <<>>, adb |-> <<>>]
NoLog == [states |-> <<>>, trail |-> <<>>, trues |-> {}, last |-> NoLast]

\* tag_three_star_pass is not run.
ScriptOff == state = "unset" /\ ppc = "off" /\ plog = NoLog

DriverIdle ==
    /\ now = 0
    /\ chan = <<>>
    /\ op = "none"
    /\ pc = "idle"
    /\ arg = NoCall
    /\ t0 = 0
    /\ hit = NoHit
    /\ frame = NoImage
    /\ before = <<>>
    /\ ret = RetUnset
    /\ exc = "none"
    /\ hist = NoHist

InitPng ==
    /\ src \in StreamDescs
    /\ stream = StreamOf(src)
    /\ pos = 0
    /\ closed = TRUE
    /\ returned = <<>>
    /\ DriverIdle
    /\ ScriptOff

\* One call of ps.next_png().
CallNextPng ==
    /\ Len(returned) < MaxCalls
    /\ LET r == NextPng(stream, pos)
       IN  /\ pos' = r.pos
           /\ returned' = Append(returned,
                  [ok |-> r.ok, bytes |-> r.bytes, start |-> pos, stop |-> r.pos])
    /\ UNCHANGED <<src, stream, closed>>
    /\ UNCHANGED driver
    /\ UNCHANGED script

NextPngOnly == CallNextPng

SpecPng == InitPng /\ [][NextPngOnly]_vars

------------------------------------------------------------------------------
(* Properties of the transport *)

IsFrame(r) == r.ok

\* The buffers next_png has returned so far, in call order.
ReturnedBuffers ==
    LET fs == SelectSeq(returned, IsFrame) IN [i \in 1..Len(fs) |-> fs[i].bytes]

\* The records the producer wrote, in stream order.
WrittenRecords == [j \in 1..Len(src.recs) |-> ItemBytes(src.recs[j])]

\* The stream is a concatenation of complete, well-formed records.
WellFormedStream == src.junk = 0 /\ src.cut = 0

\* The final record of the stream is truncated at or after the end of its
\* signature.
TruncatedAfterSignature ==
    /\ src.cut > 0
    /\ Len(ItemBytes(src.recs[Len(src.recs)])) - src.cut >= 8

\* C1: on a stream of complete well-formed records, every buffer next_png
\* returns is one of the records, and once the stream is consumed the
\* returned buffers are exactly the records, byte for byte, in stream order.
C1_EveryRecordReturned ==
    WellFormedStream =>
        /\ \A i \in 1..Len(returned) :
              returned[i].ok =>
                  \E j \in 1..Len(src.recs) :
                      /\ returned[i].start = RecordStart(src, j)
                      /\ returned[i].bytes = WrittenRecords[j]
        /\ (pos = Len(stream) => ReturnedBuffers = WrittenRecords)

\* C9: a next_png call that starts at a record the stream ends in the middle
\* of (anywhere after its signature) returns None, never a partial buffer.
C9_TruncatedRecordYieldsNone ==
    TruncatedAfterSignature =>
        \A i \in 1..Len(returned) :
            returned[i].start = RecordStart(src, Len(src.recs)) => ~returned[i].ok

\* C10: a next_png call whose first read of 8 bytes is not the signature
\* (a mismatch, a short read or an empty read at end of stream) returns None
\* and leaves the stream advanced by exactly the bytes of that read.
C10_MismatchSkipsEightBytes ==
    \A i \in 1..Len(returned) :
        LET sig == Read(stream, returned[i].start, 8)
        IN  sig # Magic =>
                /\ ~returned[i].ok
                /\ returned[i].stop = returned[i].start + Len(sig)

\* Witness of C10: one call met 8 bytes that are not the signature and
\* skipped them, and a later call met the end of the stream.
C10_Witness ==
    /\ \E i \in 1..Len(returned) :
          /\ Len(Read(stream, returned[i].start, 8)) = 8
          /\ Read(stream, returned[i].start, 8) # Magic
          /\ ~returned[i].ok
          /\ returned[i].stop = returned[i].start + 8
    /\ \E i \in 1..Len(returned) :
          /\ Read(stream, returned[i].start, 8) = <<>>
          /\ ~returned[i].ok

\* Record j of the stream and all records after it are complete and have no
\* empty payload.
SoundFrom(j) ==
    /\ src.cut = 0
    /\ \A m \in j..Len(src.recs) :
          \A c \in 1..Len(src.recs[m].chunks) : src.recs[m].chunks[c][2] # <<>>

\* C19: when a next_png call has returned None and left the stream in front
\* of a complete record, with only complete records with non-empty payloads
\* from there on, then by the time the reader is past that record some later
\* call has returned a record.
C19_Resynchronizes ==
    \A i \in 1..Len(returned), j \in 1..Len(src.recs) :
        ( /\ ~returned[i].ok
          /\ RecordStart(src, j) >= returned[i].stop
          /\ SoundFrom(j)
          /\ pos >= RecordStart(src, j + 1) ) =>
            \E k \in (i + 1)..Len(returned) : returned[k].ok

------------------------------------------------------------------------------
(* Frames: what the device puts in a record, and io_fast.decode_png *)

BE2(n) == << (n \div 256) % 256, n % 256 >>

\* A screen capture as the segments of one record: the header carries the
\* width and height, the data segment the picture: vis tells which reference
\* images are on screen, cp and wt are the contents of the two signature
\* regions. Every payload is non-empty.
FrameChunks(W, H, vis, cp, wt) ==
    << <<IHDR, BE2(W) \o BE2(H)>>, <<IDAT, <<vis, cp, wt>> >>, <<IEND, <<0>> >> >>

\* The segments of a record's bytes b from offset p on.
RECURSIVE ParseChunks(_, _)
ParseChunks(b, p) ==
    IF p >= Len(b) THEN <<>>
    ELSE LET length == FromBytes(Read(b, p, 4))
             pB     == After(b, p, 8)
             pC     == After(b, pB, length)
         IN  << [ctype |-> Read(b, After(b, p, 4), 4),
                 data  |-> Read(b, pB, length),
                 crc   |-> Read(b, pC, 4)] >>
             \o ParseChunks(b, After(b, pC, 4))

\* The candidate scales of match_template, in tenths, in scan order.
Scales == <<10, 9, 11, 8, 12>>

ScaleSet == { Scales[i] : i \in 1..Len(Scales) }

\* The reference images under asset_dir (file name -> height and width of
\* the image cv2.imread returns); a file that is not there is missing.
Assets ==
    [f \in {"main_menu_icon.png", "main_menu_pokemon.png", "first_pokemon_anchor.png",
            "hamburger_icon.png", "appraise_button.png", "tag_button.png",
            "tag_three_star.png", "tag_close.png", "three_stars_badge.png"} |->
        IF f = "three_stars_badge.png" THEN [th |-> 48, tw |-> 120] ELSE [th |-> 60, tw |-> 90]]

\* What cv2.matchTemplate + cv2.minMaxLoc answer for a picture with contents
\* vis, the reference image file and scale s: the best correlation (in
\* hundredths) and its place in the resized frame.
\*   vis 0: nothing on screen
\*   vis 1: the hamburger icon, seen best at scale 1.0
\*   vis 2: the three-star badge, seen best at scale 1.2
\*   vis 3: every reference image, but blurred: correlation 0.87 at scale 0.9
Response(vis, file, s) ==
    LET faint == [val |-> 30, x |-> 0, y |-> 0]
        near  == [val |-> 80, x |-> (30 * s) \div 10, y |-> (50 * s) \div 10]
    IN  CASE vis = 1 /\ file = "hamburger_icon.png" ->
                 IF s = 10 THEN [val |-> 97, x |-> 900, y |-> 1800] ELSE near
          [] vis = 2 /\ file = "three_stars_badge.png" ->
                 IF s = 12 THEN [val |-> 95, x |-> 361, y |-> 245] ELSE near
          [] vis = 3 ->
                 IF s = 9 THEN [val |-> 87, x |-> 100, y |-> 200] ELSE near
          [] OTHER -> faint

\* cv2.imdecode: the image of a record's bytes, or no image when the bytes
\* are not a sound picture (bad signature, layout or checksum).
DecodePng(png) ==
    LET cs == ParseChunks(png, 8)
        sound == /\ Read(png, 0, 8) = Magic
                 /\ Len(cs) = 3
                 /\ cs[1].ctype = IHDR /\ Len(cs[1].data) = 4
                 /\ cs[2].ctype = IDAT /\ Len(cs[2].data) = 3
                 /\ cs[3].ctype = IEND
                 /\ \A i \in 1..3 : cs[i].crc = Checksum(cs[i].ctype, cs[i].data)
    IN  IF ~sound THEN NoImage
        ELSE [ok   |-> TRUE,
              W    |-> FromBytes(SubSeq(cs[1].data, 1, 2)),
              H    |-> FromBytes(SubSeq(cs[1].data, 3, 4)),
              cp   |-> cs[2].data[2],
              wt   |-> cs[2].data[3],
              resp |-> [f \in DOMAIN Assets |->
                           [s \in ScaleSet |-> Response(cs[2].data[1], f, s)]]]

\* The records the device writes while the driver runs.
Scenes ==
    { FrameChunks(1080, 2400, 0, 0, 0),
      FrameChunks(1080, 2400, 1, 1, 0),
      FrameChunks(720, 1280, 2, 2, 0),
      FrameChunks(1080, 2400, 3, 0, 2) }

DeviceItems ==
    { Item(c, FALSE) : c \in Scenes }
    \cup { Item(FrameChunks(1080, 2400, 0, 0, 0), TRUE) }          \* corrupted on the way
    \cup { Item(<< <<IHDR, BE2(1080) \o BE2(2400)>>, <<IDAT, <<1, 0, 0>> >>,
                   <<IEND, <<>> >> >>, FALSE) }                    \* IEND of length 0

\* The records the device writes while tag_three_star_pass runs: a screen
\* with none of the reference images, one with all but the badge, one with
\* the badge, and a corrupted record.
PassItems ==
    { Item(FrameChunks(1080, 2400, 0, 0, 0), FALSE),
      Item(FrameChunks(1080, 2400, 3, 0, 2), FALSE),
      Item(FrameChunks(720, 1280, 2, 2, 0), FALSE),
      Item(FrameChunks(1080, 2400, 0, 0, 0), TRUE) }

Screencaps == IF ppc = "off" THEN DeviceItems ELSE PassItems

------------------------------------------------------------------------------
(* pogo_config: locators, swipes, waits *)

Locator(file, thresh) == [file |-> file, thresh |-> thresh]

\* The locators the driver is called with; thresholds in hundredths. The
\* file of the third one is not under asset_dir.
Locators ==
    { Locator("hamburger_icon.png", 86),
      Locator("three_stars_badge.png", 88),
      Locator("sort_button.png", 86) }

\* cfg.swipes: fractions in hundredths, duration in ms.
Swipes ==
    [k \in {"next_pokemon"} |-> [start |-> <<85, 50>>, end |-> <<20, 50>>, duration_ms |-> 280]]

SwipeKeys == {"next_pokemon", "prev_pokemon"}

\* tap_locator's fixed timeout (3.0 s), the default poll interval (0.12 s)
\* and cfg.waits.after_swipe (0.7 s), in ticks: the poll interval and the
\* wait are taken as one tick, the timeout as three, which keeps their
\* order and lets a search time out after a few frames.
TapTimeout == 3
DefaultPoll == 1
AfterSwipe == 1

------------------------------------------------------------------------------
(* pogo_cv *)

Max(a, b) == IF a > b THEN a ELSE b

\* The k for which the double division 11k / 1.1 falls just short of 10k
\* (k below 220).
Short11 ==
    {3} \cup (5..6) \cup (9..12) \cup (18..25) \cup (36..51) \cup (71..102) \cup (141..204)

\* The conversion of match_template left out: the place and size in the
\* resized frame
NoDiv(v, s) == v

\* int(v / s) for the scale s (in tenths) as match_template computes it, in
\* doubles; v is below 2420. The division is exact enough for the truncation
\* to give the floor of the true quotient, except for s = 1.1 at the
\* multiples of 11 above, where the double is just below the integer.
IntDiv(v, s) ==
    IF s = 11 /\ v % 11 = 0 /\ (v \div 11) \in Short11
    THEN (v * 10) \div 11 - 1
    ELSE (v * 10) \div s

\* The for loop of match_template with >= for >: on equal confidence the
\* last scale wins.
RECURSIVE MatchScan_LastMaxWins(_, _, _, _, _)
MatchScan_LastMaxWins(scr, file, scales, i, best) ==
    IF i > Len(scales) THEN best
    ELSE LET s   == scales[i]
             tpl == Assets[file]
             res == scr.resp[file][s]
         IN  IF ~best.found \/ res.val >= best.val
             THEN MatchScan_LastMaxWins(scr, file, scales, i + 1,
                      [found |-> TRUE,
                       x   |-> IntDiv(res.x, s),
                       y   |-> IntDiv(res.y, s),
                       w   |-> IntDiv(tpl.tw, s),
                       h   |-> IntDiv(tpl.th, s),
                       val |-> res.val])
             ELSE MatchScan_LastMaxWins(scr, file, scales, i + 1, best)

\* cv2.matchTemplate on an image of rw x rh and a template of tw x th: it
\* searches the smaller of the two in the other one and fails when neither
\* fits in the other.
Fits(rw, rh, tw, th) == tw <= rw /\ th <= rh
Swapped(rw, rh, tw, th) == ~Fits(rw, rh, tw, th) /\ rw <= tw /\ rh <= th

\* The for loop of match_template that returns the box as found in the
\* resized frame.
RECURSIVE MatchScan_NoRescale(_, _, _, _, _)
MatchScan_NoRescale(scr, file, scales, i, best) ==
    IF i > Len(scales) THEN best
    ELSE LET s   == scales[i]
             rw  == Max(1, (scr.W * s) \div 10)
             rh  == Max(1, (scr.H * s) \div 10)
             tpl == Assets[file]
             res == scr.resp[file][s]
         IN  IF ~Fits(rw, rh, tpl.tw, tpl.th) /\ ~Swapped(rw, rh, tpl.tw, tpl.th)
             THEN [found |-> FALSE, error |-> "cv2.error"]
             ELSE IF ~best.found \/ res.val > best.val
                  THEN MatchScan_NoRescale(scr, file, scales, i + 1,
                           [found |-> TRUE, x |-> res.x, y |-> res.y,
                            w |-> tpl.tw, h |-> tpl.th, val |-> res.val])
                  ELSE MatchScan_NoRescale(scr, file, scales, i + 1, best)

\* The for loop of match_template from scale number i on; best is the best
\* result so far (NoHit for None). A resized frame that is smaller than the
\* template in one direction and larger in the other makes cv2.matchTemplate
\* fail.
RECURSIVE MatchScan(_, _, _, _, _)
MatchScan(scr, file, scales, i, best) ==
    IF i > Len(scales) THEN best
    ELSE LET s   == scales[i]
             rw  == Max(1, (scr.W * s) \div 10)
             rh  == Max(1, (scr.H * s) \div 10)
             tpl == Assets[file]
             res == scr.resp[file][s]
         IN  IF ~Fits(rw, rh, tpl.tw, tpl.th) /\ ~Swapped(rw, rh, tpl.tw, tpl.th)
             THEN [found |-> FALSE, error |-> "cv2.error"]
             ELSE IF ~best.found \/ res.val > best.val
                  THEN MatchScan(scr, file, scales, i + 1,
                           [found |-> TRUE,
                            x   |-> IntDiv(res.x, s),
                            y   |-> IntDiv(res.y, s),
                            w   |-> IntDiv(tpl.tw, s),
                            h   |-> IntDiv(tpl.th, s),
                            val |-> res.val])
                  ELSE MatchScan(scr, file, scales, i + 1, best)

\* match_template without the threshold test: the best result is a hit
MatchTemplate_NoThreshold(scr, file, thresh, scales) ==
    MatchScan(scr, file, scales, 1, NoHit)

\* match_template(scr, tpl, thresh, scales): the hit, or NoHit for None.
MatchTemplate(scr, file, thresh, scales) ==
    LET best == MatchScan(scr, file, scales, 1, NoHit)
    IN  IF "error" \in DOMAIN best THEN best
        ELSE IF best.found /\ best.val >= thresh THEN best
        ELSE NoHit

\* find_locator: load_template, then match_template with the default scales.
FindLocator(loc, screen) ==
    IF loc.file \notin DOMAIN Assets
    THEN [found |-> FALSE, error |-> "FileNotFoundError"]
    ELSE MatchTemplate(screen, loc.file, loc.thresh, Scales)

\* center_of without the halving: the far corner of the box
CenterOf_FarCorner(bbox) == <<bbox.x + bbox.w, bbox.y + bbox.h>>

\* center_of
CenterOf(bbox) == <<bbox.x + bbox.w \div 2, bbox.y + bbox.h \div 2>>

\* signature_bytes of a region with contents c: the region is resized to
\* 160x90 (differences below that resolution vanish) and hashed.
Blake2b(small) == <<"blake2b", small>>

SignatureBytes(c) == Blake2b(c \div 2)

\* signatures_from_frame hashing the cp region twice
SignaturesFromFrame_CpTwice(screen) == <<SignatureBytes(screen.cp), SignatureBytes(screen.cp)>>

\* signatures_from_frame
SignaturesFromFrame(screen) == <<SignatureBytes(screen.cp), SignatureBytes(screen.wt)>>

------------------------------------------------------------------------------
(* The device: the screencap loop writing into the pipe *)

\* The loop writes one more record. The reader cannot tell when the bytes
\* it reads were written, so the record is written when the driver is about
\* to read past the end of what is there.
Produce ==
    /\ ~closed
    /\ pc \in {"wf_pull", "stc_pull", "sbn_pull", "eol_pull1", "eol_pull2"}
    /\ pos = Len(stream)
    /\ Len(src.recs) < MaxFrames
    /\ \E it \in Screencaps :
          /\ src' = [src EXCEPT !.recs = Append(@, it), !.capt = Append(@, Len(chan))]
          /\ stream' = stream \o ItemBytes(it)
    /\ UNCHANGED <<pos, closed, returned>>
    /\ UNCHANGED driver
    /\ UNCHANGED script

\* The loop runs on its own: it captures the screen and writes the record
\* while the driver is busy with something else than reading, and the record
\* then lies in the pipe until the driver reads again. src.capt keeps, for
\* each record, how many commands had been sent when the screen was captured;
\* a record written ahead differs in that from one written at the read only
\* when a command is sent in between, so the loop is let run ahead where the
\* driver is about to send one.
ProduceAhead ==
    /\ ~closed
    /\ pc \in {"tl_tap", "stc_tap", "sbn_send"}
    /\ pos = Len(stream)
    /\ Len(src.recs) < MaxFrames
    /\ \E it \in Screencaps :
          /\ src' = [src EXCEPT !.recs = Append(@, it), !.capt = Append(@, Len(chan))]
          /\ stream' = stream \o ItemBytes(it)
    /\ UNCHANGED <<pos, closed, returned>>
    /\ UNCHANGED driver
    /\ UNCHANGED script

\* The screencap process ends (adb disconnects): reads now meet the end of
\* the stream.
Close ==
    /\ ~closed
    /\ pc \in {"wf_pull", "stc_pull", "sbn_pull", "eol_pull1", "eol_pull2"}
    /\ pos = Len(stream)
    /\ closed' = TRUE
    /\ UNCHANGED <<src, stream, pos, returned>>
    /\ UNCHANGED driver
    /\ UNCHANGED script

------------------------------------------------------------------------------
(* pogo_ui: the locator resolver and the action driver *)

Tap(xy) == [cmd |-> "tap", a |-> xy]
SwipeCmd(sx, sy, ex, ey, dur) == [cmd |-> "swipe", a |-> <<sx, sy, ex, ey, dur>>]

RetNone == [kind |-> "None"]
RetBool(b) == [kind |-> "bool", v |-> b]
RetPair(h, f) == [kind |-> "pair", hit |-> h, frame |-> f]
NotFound == [kind |-> "pair", hit |-> NoHit, frame |-> NoImage]

Resolvers == {"wait_and_find", "tap_locator", "exists"}

\* The driver calls f with arguments a; first is the first position in f.
Enter(f, a, first) ==
    /\ pc = "idle"
    /\ op' = f
    /\ arg' = a
    /\ pc' = first
    /\ t0' = now
    /\ hist' = [NoHist EXCEPT !.chan0 = chan]
    /\ UNCHANGED <<now, chan, hit, frame, before, ret, exc>>
    /\ UNCHANGED transport
    /\ UNCHANGED script

\* The timeout is any float: 0 stands for the timeouts that are not positive.
CallWaitAndFind ==
    \E l \in Locators, to \in 0..MaxTimeout, pl \in 1..MaxPoll :
        Enter("wait_and_find", [loc |-> l, timeout |-> to, poll |-> pl], "wf_check")

CallTapLocator ==
    \E l \in Locators, w \in 0..MaxWait :
        Enter("tap_locator",
              [loc |-> l, timeout |-> TapTimeout, poll |-> DefaultPoll, wait_after |-> w],
              "wf_check")

CallExists ==
    \E l \in Locators, to \in 0..MaxTimeout :
        Enter("exists", [loc |-> l, timeout |-> to, poll |-> DefaultPoll], "wf_check")

CallSingleTapCenter ==
    \E w \in 0..MaxWait : Enter("single_tap_center", [wait_after |-> w], "stc_pull")

CallSwipeByName ==
    \E k \in SwipeKeys, w \in 0..MaxWait :
        Enter("swipe_by_name", [key |-> k, wait_after |-> w], "sbn_pull")

CallEndOfList ==
    \E k \in SwipeKeys :
        Enter("end_of_list_after_swipe", [key |-> k, wait_after |-> AfterSwipe], "eol_pull1")

\* The function returns v.
Return(v) == pc' = "done" /\ ret' = v /\ exc' = exc

\* The function is left by exception e.
Raise(e) == pc' = "done" /\ exc' = e /\ ret' = ret

\* The while test with a miss reported as success.
WfCheck_MissReturnsTrue ==
    /\ pc = "wf_check"
    /\ IF now - t0 < arg.timeout
       THEN pc' = "wf_pull" /\ UNCHANGED <<ret, exc, hist>>
       ELSE /\ Return(IF op = "wait_and_find" THEN NotFound ELSE RetBool(TRUE))
            /\ hist' = [hist EXCEPT !.timedOut = TRUE]
    /\ UNCHANGED <<now, chan, op, arg, t0, hit, frame, before>>
    /\ UNCHANGED transport
    /\ UNCHANGED script

\* wait_and_find: the while test. Past the timeout the resolver returns
\* (None, None); tap_locator and exists turn that into False.
WfCheck ==
    /\ pc = "wf_check"
    /\ IF now - t0 < arg.timeout
       THEN pc' = "wf_pull" /\ UNCHANGED <<ret, exc, hist>>
       ELSE /\ Return(IF op = "wait_and_find" THEN NotFound ELSE RetBool(FALSE))
            /\ hist' = [hist EXCEPT !.timedOut = TRUE]
    /\ UNCHANGED <<now, chan, op, arg, t0, hit, frame, before>>
    /\ UNCHANGED transport
    /\ UNCHANGED script

\* Where the caller of _next_frame goes on with the frame.
AfterPull(at) ==
    CASE at = "wf_pull" -> "wf_match"
      [] at = "stc_pull" -> "stc_tap"
      [] at = "sbn_pull" -> "sbn_send"
      [] at = "eol_pull1" -> "eol_before"
      [] at = "eol_pull2" -> "eol_after"

\* _next_frame handing a "no frame" result of next_png back to wait_and_find,
\* which takes it for a frame without the target and waits a poll interval
NextFrame_NoneIsAttempt ==
    /\ pc \in {"wf_pull", "stc_pull", "sbn_pull", "eol_pull1", "eol_pull2"}
    /\ pos < Len(stream) \/ closed
    /\ \E d \in 0..MaxCost : now + d <= MaxTime /\ now' = now + d
    /\ LET r   == NextPng(stream, pos)
           img == DecodePng(r.bytes)
       IN  /\ pos' = r.pos
           /\ IF ~r.ok
              THEN /\ hist' = [hist EXCEPT !.nones = TRUE]
                   /\ pc' = IF pc = "wf_pull" THEN "wf_sleep" ELSE pc
                   /\ UNCHANGED <<frame, ret, exc>>
              ELSE IF ~img.ok
              THEN /\ Raise("RuntimeError")
                   /\ UNCHANGED <<frame, hist>>
              ELSE /\ frame' = img
                   /\ hist' = [hist EXCEPT !.pulled =
                                  Append(@, [img |-> img, sent |-> Len(chan), at |-> now',
                                             capt |-> src.capt[RecordAt(src, pos)]])]
                   /\ pc' = AfterPull(pc)
                   /\ UNCHANGED <<ret, exc>>
    /\ UNCHANGED <<src, stream, closed, returned>>
    /\ UNCHANGED <<chan, op, arg, t0, hit, before>>
    /\ UNCHANGED script

\* _next_frame: one turn of its loop. next_png blocks until the pipe has the
\* bytes or is closed; a None result repeats the loop, a record that does not
\* decode raises RuntimeError out of decode_png.
NextFrame ==
    /\ pc \in {"wf_pull", "stc_pull", "sbn_pull", "eol_pull1", "eol_pull2"}
    /\ pos < Len(stream) \/ closed
    /\ \E d \in 0..MaxCost : now + d <= MaxTime /\ now' = now + d
    /\ LET r   == NextPng(stream, pos)
           img == DecodePng(r.bytes)
       IN  /\ pos' = r.pos
           /\ IF ~r.ok
              THEN /\ hist' = [hist EXCEPT !.nones = TRUE]
                   /\ UNCHANGED <<pc, frame, ret, exc>>
              ELSE IF ~img.ok
              THEN /\ Raise("RuntimeError")
                   /\ UNCHANGED <<frame, hist>>
              ELSE /\ frame' = img
                   /\ hist' = [hist EXCEPT !.pulled =
                                  Append(@, [img |-> img, sent |-> Len(chan), at |-> now',
                                             capt |-> src.capt[RecordAt(src, pos)]])]
                   /\ pc' = AfterPull(pc)
                   /\ UNCHANGED <<ret, exc>>
    /\ UNCHANGED <<src, stream, closed, returned>>
    /\ UNCHANGED <<chan, op, arg, t0, hit, before>>
    /\ UNCHANGED script

\* wait_and_find: find_locator on the frame; a hit is returned at once.
WfMatch ==
    /\ pc = "wf_match"
    /\ \E d \in 0..MaxCost : now + d <= MaxTime /\ now' = now + d
    /\ LET m == FindLocator(arg.loc, frame)
       IN  IF "error" \in DOMAIN m
           THEN Raise(m.error) /\ UNCHANGED hit
           ELSE /\ hit' = m
                /\ IF ~m.found THEN pc' = "wf_sleep" /\ UNCHANGED <<ret, exc>>
                   ELSE IF op = "wait_and_find" THEN Return(RetPair(m, frame))
                   ELSE IF op = "exists" THEN Return(RetBool(TRUE))
                   ELSE pc' = "tl_tap" /\ UNCHANGED <<ret, exc>>
    /\ UNCHANGED <<chan, op, arg, t0, frame, before, hist>>
    /\ UNCHANGED transport
    /\ UNCHANGED script

\* wait_and_find: time.sleep(poll)
WfSleep ==
    /\ pc = "wf_sleep"
    /\ now + arg.poll <= MaxTime
    /\ now' = now + arg.poll
    /\ pc' = "wf_check"
    /\ hist' = [hist EXCEPT !.sleeps = @ + 1]
    /\ UNCHANGED <<chan, op, arg, t0, hit, frame, before, ret, exc>>
    /\ UNCHANGED transport
    /\ UNCHANGED script

\* After a command is sent: wait wait_after if it is not 0, else go on.
ThenWait(waiting, next, v) ==
    IF arg.wait_after # 0 THEN pc' = waiting /\ UNCHANGED <<ret, exc>>
    ELSE IF next = "done" THEN Return(v)
    ELSE pc' = next /\ UNCHANGED <<ret, exc>>

\* tap_locator: the tap on the centre of the hit
TlTap ==
    /\ pc = "tl_tap"
    /\ chan' = Append(chan, Tap(CenterOf(hit)))
    /\ ThenWait("tl_wait", "done", RetBool(TRUE))
    /\ UNCHANGED <<now, op, arg, t0, hit, frame, before, hist>>
    /\ UNCHANGED transport
    /\ UNCHANGED script

\* single_tap_center tapping the middle of the screen
StcTap_Middle ==
    /\ pc = "stc_tap"
    /\ chan' = Append(chan, Tap(<<frame.W \div 2, frame.H \div 2>>))
    /\ ThenWait("stc_wait", "done", RetNone)
    /\ UNCHANGED <<now, op, arg, t0, hit, frame, before, hist>>
    /\ UNCHANGED transport
    /\ UNCHANGED script

\* single_tap_center: the tap at (W // 2, int(H * 0.65)); the float product
\* truncates to the exact floor for every height up to 5000.
StcTap ==
    /\ pc = "stc_tap"
    /\ chan' = Append(chan, Tap(<<frame.W \div 2, (frame.H * 65) \div 100>>))
    /\ ThenWait("stc_wait", "done", RetNone)
    /\ UNCHANGED <<now, op, arg, t0, hit, frame, before, hist>>
    /\ UNCHANGED transport
    /\ UNCHANGED script

\* _abs_points_from_swipe with width and height exchanged
AbsPointsFromSwipe_Transposed(f, swipe) ==
    << (f.H * swipe.start[1]) \div 100, (f.W * swipe.start[2]) \div 100,
       (f.H * swipe.end[1]) \div 100, (f.W * swipe.end[2]) \div 100 >>

\* _abs_points_from_swipe: int(W * fraction), int(H * fraction). For the
\* fractions of cfg.swipes (0.85, 0.50, 0.20) the float product truncates to
\* the exact floor for every width and height up to 5000.
AbsPointsFromSwipe(f, swipe) ==
    << (f.W * swipe.start[1]) \div 100, (f.H * swipe.start[2]) \div 100,
       (f.W * swipe.end[1]) \div 100, (f.H * swipe.end[2]) \div 100 >>

\* Where swipe_by_name returns to.
AfterSwipeByName == IF op = "end_of_list_after_swipe" THEN "eol_pull2" ELSE "done"

\* swipe_by_name with the key test left out: an unknown name is swiped like
\* "next_pokemon"
SbnSend_UnknownKeySwipes ==
    /\ pc = "sbn_send"
    /\ LET pt == AbsPointsFromSwipe(frame, Swipes["next_pokemon"])
       IN  /\ chan' = Append(chan, SwipeCmd(pt[1], pt[2], pt[3], pt[4],
                                            Swipes["next_pokemon"].duration_ms))
           /\ ThenWait("sbn_wait", AfterSwipeByName, RetNone)
    /\ UNCHANGED <<now, op, arg, t0, hit, frame, before, hist>>
    /\ UNCHANGED transport
    /\ UNCHANGED script

\* swipe_by_name after its frame pull: the key test and the swipe
SbnSend ==
    /\ pc = "sbn_send"
    /\ IF arg.key \notin DOMAIN Swipes
       THEN Raise("KeyError") /\ UNCHANGED chan
       ELSE LET pt == AbsPointsFromSwipe(frame, Swipes[arg.key])
            IN  /\ chan' = Append(chan, SwipeCmd(pt[1], pt[2], pt[3], pt[4],
                                                 Swipes[arg.key].duration_ms))
                /\ ThenWait("sbn_wait", AfterSwipeByName, RetNone)
    /\ UNCHANGED <<now, op, arg, t0, hit, frame, before, hist>>
    /\ UNCHANGED transport
    /\ UNCHANGED script

\* time.sleep(wait_after) of tap_locator, single_tap_center, swipe_by_name
WaitAfter ==
    /\ pc \in {"tl_wait", "stc_wait", "sbn_wait"}
    /\ now + arg.wait_after <= MaxTime
    /\ now' = now + arg.wait_after
    /\ IF pc = "tl_wait" THEN Return(RetBool(TRUE))
       ELSE IF pc = "sbn_wait" /\ AfterSwipeByName # "done"
            THEN pc' = AfterSwipeByName /\ UNCHANGED <<ret, exc>>
       ELSE Return(RetNone)
    /\ UNCHANGED <<chan, op, arg, t0, hit, frame, before, hist>>
    /\ UNCHANGED transport
    /\ UNCHANGED script

\* end_of_list_after_swipe: before = signatures_from_frame(...)
EolBefore ==
    /\ pc = "eol_before"
    /\ before' = SignaturesFromFrame(frame)
    /\ pc' = "sbn_pull"
    /\ UNCHANGED <<now, chan, op, arg, t0, hit, frame, ret, exc, hist>>
    /\ UNCHANGED transport
    /\ UNCHANGED script

\* end_of_list_after_swipe: after = ...; return before == after
EolAfter ==
    /\ pc = "eol_after"
    /\ Return(RetBool(before = SignaturesFromFrame(frame)))
    /\ UNCHANGED <<now, chan, op, arg, t0, hit, frame, before, hist>>
    /\ UNCHANGED transport
    /\ UNCHANGED script

InitUi ==
    /\ src = [recs |-> <<>>, junk |-> 0, cut |-> 0, capt |-> <<>>]
    /\ stream = <<>>
    /\ pos = 0
    /\ closed = FALSE
    /\ returned = <<>>
    /\ DriverIdle
    /\ ScriptOff

NextUi ==
    \/ Produce
    \/ ProduceAhead
    \/ Close
    \/ CallWaitAndFind
    \/ CallTapLocator
    \/ CallExists
    \/ CallSingleTapCenter
    \/ CallSwipeByName
    \/ CallEndOfList
    \/ WfCheck
    \/ NextFrame
    \/ WfMatch
    \/ WfSleep
    \/ TlTap
    \/ StcTap
    \/ SbnSend
    \/ WaitAfter
    \/ EolBefore
    \/ EolAfter

SpecUi == InitUi /\ [][NextUi]_vars

------------------------------------------------------------------------------
(* pogo_states: tag_three_star_pass *)

MaxRounds == 2      \* swipes to the next Pokemon that did not end the list

\* cfg.waits, in ticks: each wait (0.4 s to 1.0 s) is taken as one tick.
Waits ==
    [w \in {"after_menu_open", "after_list_open", "after_open_detail", "after_three_bars",
            "after_open_appraise", "after_tap_advance", "after_tag_open", "after_apply_tag",
            "after_close_tag"} |-> 1]

\* The timeout of the exists call of EVAL_STARS (1.0 s), in ticks.
EvalTimeout == 2

\* The members of Tag3StarState the while loop has a branch for, and the
\* others.
Handled == {"OPEN_FIRST", "OPEN_MENU", "TAP_TO_STATS", "EVAL_STARS", "NEXT", "DONE"}
Unhandled == {"OPEN_LIST", "OPEN_APPRAISE", "TAG_OPEN_MENU", "TAG_OPEN_DIALOG", "TAG_APPLY",
              "TAG_CLOSE"}

TapCall(file, wait) ==
    [f |-> "tap_locator", first |-> "wf_check",
     a |-> [loc |-> Locator(file, 86), timeout |-> TapTimeout, poll |-> DefaultPoll,
            wait_after |-> Waits[wait]]]

StcCall == [f |-> "single_tap_center", first |-> "stc_pull",
            a |-> [wait_after |-> Waits["after_tap_advance"]]]

\* The driver calls tag_three_star_pass makes, by position: opl1, opl2 are
\* open_pokemon_list, first is select_first_pokemon, menu1, menu2 are
\* open_appraise_flow, exit and tag1..tag4 the tagging of EVAL_STARS, reopen1
\* and reopen2 the taps of NEXT.
Sites ==
    [opl1    |-> TapCall("main_menu_icon.png", "after_menu_open"),
     opl2    |-> TapCall("main_menu_pokemon.png", "after_list_open"),
     first   |-> TapCall("first_pokemon_anchor.png", "after_open_detail"),
     menu1   |-> TapCall("hamburger_icon.png", "after_three_bars"),
     menu2   |-> TapCall("appraise_button.png", "after_open_appraise"),
     stats   |-> StcCall,
     eval    |-> [f |-> "exists", first |-> "wf_check",
                  a |-> [loc |-> Locator("three_stars_badge.png", 88),
                         timeout |-> EvalTimeout, poll |-> DefaultPoll]],
     exit    |-> StcCall,
     tag1    |-> TapCall("hamburger_icon.png", "after_three_bars"),
     tag2    |-> TapCall("tag_button.png", "after_tag_open"),
     tag3    |-> TapCall("tag_three_star.png", "after_apply_tag"),
     tag4    |-> TapCall("tag_close.png", "after_close_tag"),
     next    |-> [f |-> "end_of_list_after_swipe", first |-> "eol_pull1",
                  a |-> [key |-> "next_pokemon", wait_after |-> AfterSwipe]],
     reopen1 |-> TapCall("hamburger_icon.png", "after_three_bars"),
     reopen2 |-> TapCall("appraise_button.png", "after_open_appraise")]

Goto(site) == [to |-> site, set |-> "-"]
Assign(st) == [to |-> "loop", set |-> st]

\* The pass with the tagging steps recorded in state, as the members of
\* Tag3StarState suggest.
AfterSite_TagStates(site, v) ==
    CASE site = "opl1"    -> IF v = RetBool(TRUE) THEN Goto("opl2") ELSE Goto("assert")
      [] site = "opl2"    -> IF v = RetBool(TRUE) THEN Assign("OPEN_FIRST") ELSE Goto("assert")
      [] site = "first"   -> Assign("OPEN_MENU")
      [] site = "menu1"   -> Goto("menu2")
      [] site = "menu2"   -> Assign("TAP_TO_STATS")
      [] site = "stats"   -> Assign("EVAL_STARS")
      [] site = "eval"    -> IF v = RetBool(TRUE) THEN Assign("TAG_OPEN_MENU") ELSE Assign("NEXT")
      [] site = "exit"    -> Goto("tag1")
      [] site = "tag1"    -> Goto("tag2")
      [] site = "tag2"    -> Goto("tag3")
      [] site = "tag3"    -> Goto("tag4")
      [] site = "tag4"    -> Assign("NEXT")
      [] site = "next"    -> IF v = RetBool(TRUE) THEN Assign("DONE") ELSE Goto("reopen1")
      [] site = "reopen1" -> IF v = RetBool(TRUE) THEN Goto("reopen2") ELSE Assign("TAP_TO_STATS")
      [] site = "reopen2" -> Assign("TAP_TO_STATS")

\* The pass tagging without looking at what exists returned.
AfterSite_TagAlways(site, v) ==
    CASE site = "opl1"    -> IF v = RetBool(TRUE) THEN Goto("opl2") ELSE Goto("assert")
      [] site = "opl2"    -> IF v = RetBool(TRUE) THEN Assign("OPEN_FIRST") ELSE Goto("assert")
      [] site = "first"   -> Assign("OPEN_MENU")
      [] site = "menu1"   -> Goto("menu2")
      [] site = "menu2"   -> Assign("TAP_TO_STATS")
      [] site = "stats"   -> Assign("EVAL_STARS")
      [] site = "eval"    -> Goto("exit")
      [] site = "exit"    -> Goto("tag1")
      [] site = "tag1"    -> Goto("tag2")
      [] site = "tag2"    -> Goto("tag3")
      [] site = "tag3"    -> Goto("tag4")
      [] site = "tag4"    -> Assign("NEXT")
      [] site = "next"    -> IF v = RetBool(TRUE) THEN Assign("DONE") ELSE Goto("reopen1")
      [] site = "reopen1" -> IF v = RetBool(TRUE) THEN Goto("reopen2") ELSE Assign("TAP_TO_STATS")
      [] site = "reopen2" -> Assign("TAP_TO_STATS")

\* The pass tapping the appraise button in NEXT whether or not the hamburger
\* icon was found.
AfterSite_AppraiseAlways(site, v) ==
    CASE site = "opl1"    -> IF v = RetBool(TRUE) THEN Goto("opl2") ELSE Goto("assert")
      [] site = "opl2"    -> IF v = RetBool(TRUE) THEN Assign("OPEN_FIRST") ELSE Goto("assert")
      [] site = "first"   -> Assign("OPEN_MENU")
      [] site = "menu1"   -> Goto("menu2")
      [] site = "menu2"   -> Assign("TAP_TO_STATS")
      [] site = "stats"   -> Assign("EVAL_STARS")
      [] site = "eval"    -> IF v = RetBool(TRUE) THEN Goto("exit") ELSE Assign("NEXT")
      [] site = "exit"    -> Goto("tag1")
      [] site = "tag1"    -> Goto("tag2")
      [] site = "tag2"    -> Goto("tag3")
      [] site = "tag3"    -> Goto("tag4")
      [] site = "tag4"    -> Assign("NEXT")
      [] site = "next"    -> IF v = RetBool(TRUE) THEN Assign("DONE") ELSE Goto("reopen1")
      [] site = "reopen1" -> Goto("reopen2")
      [] site = "reopen2" -> Assign("TAP_TO_STATS")

\* The pass giving up when the hamburger icon is not found in NEXT.
AfterSite_MissEndsPass(site, v) ==
    CASE site = "opl1"    -> IF v = RetBool(TRUE) THEN Goto("opl2") ELSE Goto("assert")
      [] site = "opl2"    -> IF v = RetBool(TRUE) THEN Assign("OPEN_FIRST") ELSE Goto("assert")
      [] site = "first"   -> Assign("OPEN_MENU")
      [] site = "menu1"   -> Goto("menu2")
      [] site = "menu2"   -> Assign("TAP_TO_STATS")
      [] site = "stats"   -> Assign("EVAL_STARS")
      [] site = "eval"    -> IF v = RetBool(TRUE) THEN Goto("exit") ELSE Assign("NEXT")
      [] site = "exit"    -> Goto("tag1")
      [] site = "tag1"    -> Goto("tag2")
      [] site = "tag2"    -> Goto("tag3")
      [] site = "tag3"    -> Goto("tag4")
      [] site = "tag4"    -> Assign("NEXT")
      [] site = "next"    -> IF v = RetBool(TRUE) THEN Assign("DONE") ELSE Goto("reopen1")
      [] site = "reopen1" -> IF v = RetBool(TRUE) THEN Goto("reopen2") ELSE Assign("DONE")
      [] site = "reopen2" -> Assign("TAP_TO_STATS")

\* Where tag_three_star_pass goes on when the call at site has returned v:
\* the next call, or an assignment to state and the top of the loop.
AfterSite(site, v) ==
    CASE site = "opl1"    -> IF v = RetBool(TRUE) THEN Goto("opl2") ELSE Goto("assert")
      [] site = "opl2"    -> IF v = RetBool(TRUE) THEN Assign("OPEN_FIRST") ELSE Goto("assert")
      [] site = "first"   -> Assign("OPEN_MENU")
      [] site = "menu1"   -> Goto("menu2")
      [] site = "menu2"   -> Assign("TAP_TO_STATS")
      [] site = "stats"   -> Assign("EVAL_STARS")
      [] site = "eval"    -> IF v = RetBool(TRUE) THEN Goto("exit") ELSE Assign("NEXT")
      [] site = "exit"    -> Goto("tag1")
      [] site = "tag1"    -> Goto("tag2")
      [] site = "tag2"    -> Goto("tag3")
      [] site = "tag3"    -> Goto("tag4")
      [] site = "tag4"    -> Assign("NEXT")
      [] site = "next"    -> IF v = RetBool(TRUE) THEN Assign("DONE") ELSE Goto("reopen1")
      [] site = "reopen1" -> IF v = RetBool(TRUE) THEN Goto("reopen2") ELSE Assign("TAP_TO_STATS")
      [] site = "reopen2" -> Assign("TAP_TO_STATS")

\* The branch of the while loop taken in state st.
Branch(st) ==
    CASE st = "OPEN_FIRST"   -> "first"
      [] st = "OPEN_MENU"    -> "menu1"
      [] st = "TAP_TO_STATS" -> "stats"
      [] st = "EVAL_STARS"   -> "eval"
      [] st = "NEXT"         -> "next"

\* How often st has been assigned to state.
Times(st) == Cardinality({ i \in 1..Len(plog.states) : plog.states[i] = st })

\* The calls whose result tag_three_star_pass tests.
Tested == {"opl1", "opl2", "eval", "next", "reopen1"}

\* The record of the driver call at site that has just returned:
\* what it returned, the commands it sent on the input channel and the adb
\* commands it ran.
CallRecord(site) == [site |-> site, ret |-> ret, sent |-> chan, adb |-> <<>>]

\* The pass going on whatever playing_pogo returned.
PlayingPogo_Unchecked ==
    /\ ppc = "start"
    /\ \E fg1, fg2 \in BOOLEAN :
          /\ ppc' = "opl1"
          /\ plog' = [plog EXCEPT
                        !.trail = <<"playing_pogo">>,
                        !.trues = IF fg1 \/ fg2 THEN {"playing_pogo"} ELSE {},
                        !.last = [site |-> "playing_pogo", ret |-> RetBool(fg1 \/ fg2),
                                  sent |-> <<>>,
                                  adb |-> IF fg1 THEN <<"is_foreground">>
                                          ELSE <<"is_foreground", "start_app",
                                                 "is_foreground">>]]
    /\ UNCHANGED state
    /\ UNCHANGED driver
    /\ UNCHANGED transport

\* playing_pogo: is_foreground, and if not, start_app, the after_launch sleep
\* and is_foreground again; the answers of the device are fg1 and fg2. The
\* pass returns at once when the game is not in the foreground.
PlayingPogo ==
    /\ ppc = "start"
    /\ \E fg1, fg2 \in BOOLEAN :
          /\ ppc' = IF fg1 \/ fg2 THEN "opl1" ELSE "returned"
          /\ plog' = [plog EXCEPT
                        !.trail = <<"playing_pogo">>,
                        !.trues = IF fg1 \/ fg2 THEN {"playing_pogo"} ELSE {},
                        !.last = [site |-> "playing_pogo", ret |-> RetBool(fg1 \/ fg2),
                                  sent |-> <<>>,
                                  adb |-> IF fg1 THEN <<"is_foreground">>
                                          ELSE <<"is_foreground", "start_app",
                                                 "is_foreground">>]]
    /\ UNCHANGED state
    /\ UNCHANGED driver
    /\ UNCHANGED transport

\* tag_three_star_pass makes the driver call of the position it is at.
PassCall ==
    /\ ppc \in DOMAIN Sites
    /\ Enter(Sites[ppc].f, Sites[ppc].a, Sites[ppc].first)

\* The driver call has ended. An exception leaves tag_three_star_pass;
\* otherwise the pass goes on by the value returned. The clock is read for
\* differences only and is set back to 0; of the pipe and the channel only
\* what the running driver call reads and sends is kept.
PassResume ==
    /\ ppc \in DOMAIN Sites
    /\ pc = "done"
    /\ IF exc # "none"
       THEN /\ ppc' = "failed"
            /\ UNCHANGED <<state, plog>>
            /\ UNCHANGED driver
            /\ UNCHANGED transport
       ELSE LET n == AfterSite(ppc, ret)
            IN  /\ n.to = "reopen1" => Times("NEXT") <= MaxRounds
                /\ ppc' = n.to
                /\ state' = IF n.set = "-" THEN state ELSE n.set
                /\ plog' = [plog EXCEPT
                              !.states = IF n.set = "-" THEN @ ELSE Append(@, n.set),
                              !.trail = Append(@, ppc),
                              !.trues = IF ppc \in Tested /\ ret = RetBool(TRUE)
                                        THEN @ \cup {ppc} ELSE @,
                              !.last = CallRecord(ppc)]
                /\ pc' = "idle" /\ op' = "none" /\ arg' = NoCall
                /\ now' = 0 /\ t0' = 0 /\ chan' = <<>>
                /\ hit' = NoHit /\ frame' = NoImage /\ before' = <<>>
                /\ ret' = RetUnset /\ hist' = NoHist
                /\ src' = [src EXCEPT !.recs = <<>>, !.capt = <<>>]
                /\ stream' = SubSeq(stream, pos + 1, Len(stream))
                /\ pos' = 0
                /\ UNCHANGED <<closed, returned, exc>>

\* assert open_pokemon_list(...) with open_pokemon_list returning False
AssertFails ==
    /\ ppc = "assert"
    /\ ppc' = "failed"
    /\ exc' = "AssertionError"
    /\ UNCHANGED <<state, plog>>
    /\ UNCHANGED <<now, chan, op, pc, arg, t0, hit, frame, before, ret, hist>>
    /\ UNCHANGED transport

\* The loop with no exit from DONE.
LoopTop_DoneStays ==
    /\ ppc = "loop"
    /\ ppc' = IF state \in Handled \ {"DONE"} THEN Branch(state) ELSE "loop"
    /\ plog' = [plog EXCEPT !.trail = <<>>, !.trues = {}]
    /\ UNCHANGED state
    /\ UNCHANGED driver
    /\ UNCHANGED transport

\* The top of the while loop: the branch of the current state is taken. DONE
\* clears running and the pass returns; a state without a branch leaves the
\* loop turning with nothing done.
LoopTop ==
    /\ ppc = "loop"
    /\ ppc' = IF state = "DONE" THEN "returned"
              ELSE IF state \in Handled THEN Branch(state)
              ELSE "loop"
    /\ plog' = IF state = "DONE" THEN plog
               ELSE [plog EXCEPT !.trail = <<>>, !.trues = {}]
    /\ UNCHANGED state
    /\ UNCHANGED driver
    /\ UNCHANGED transport

InitPass ==
    /\ src = [recs |-> <<>>, junk |-> 0, cut |-> 0, capt |-> <<>>]
    /\ stream = <<>>
    /\ pos = 0
    /\ closed = FALSE
    /\ returned = <<>>
    /\ DriverIdle
    /\ state = "unset"
    /\ ppc = "start"
    /\ plog = NoLog

NextPass ==
    \/ Produce
    \/ Close
    \/ PlayingPogo
    \/ PassCall
    \/ PassResume
    \/ AssertFails
    \/ LoopTop
    \/ WfCheck
    \/ NextFrame
    \/ WfMatch
    \/ WfSleep
    \/ TlTap
    \/ StcTap
    \/ SbnSend
    \/ WaitAfter
    \/ EolBefore
    \/ EolAfter

SpecPass == InitPass /\ [][NextPass]_vars

\* The driver is inside _next_frame.
Pulling == pc \in {"wf_pull", "stc_pull", "sbn_pull", "eol_pull1", "eol_pull2"}

\* A step of the script other than a read of the pipe: tag_three_star_pass
\* and the driver calls it makes are one sequential thread, which takes its
\* next step whenever it has one.
PassStep ==
    \/ PlayingPogo
    \/ PassCall
    \/ PassResume
    \/ AssertFails
    \/ LoopTop
    \/ WfCheck
    \/ WfMatch
    \/ WfSleep
    \/ TlTap
    \/ StcTap
    \/ SbnSend
    \/ WaitAfter
    \/ EolBefore
    \/ EolAfter

\* The pass with the script running on. Nothing is assumed of the device
\* and of the reads of the pipe, which depend on it.
SpecPassFair == InitPass /\ [][NextPass]_vars /\ WF_vars(PassStep)

------------------------------------------------------------------------------
(* Properties of the locator resolver and the action driver *)

Running == pc \notin {"idle", "done"}
Returned == pc = "done" /\ exc = "none"
Elapsed == now - t0

\* C2: when every next_png call of a wait_and_find call delivered a frame
\* and none of the frames held the target, wait_and_find has returned
\* (None, None) no later than timeout + one poll interval after the call.
C2_NotFoundWithinTimeoutPlusPoll ==
    (op = "wait_and_find" /\ Returned /\ ret = NotFound /\ ~hist.nones) =>
        Elapsed <= arg.timeout + arg.poll

\* C3: a resolver call that got only "no frame" results from the transport
\* is not still running once its timeout (plus one poll interval and one
\* read) has elapsed.
C3_NoFrameNeverBlocksBeyondTimeout ==
    (op \in Resolvers /\ Running /\ hist.pulled = <<>>) =>
        Elapsed <= arg.timeout + arg.poll + MaxCost

\* C4: the decode error of a record that fails to decode never leaves a
\* driver function.
C4_DecodeErrorNeverPropagates ==
    ~(pc = "done" /\ exc = "RuntimeError")

LastPulled == hist.pulled[Len(hist.pulled)]

\* C5: once tap_locator has its hit (x, y, w, h), found in the frame pulled
\* last, the channel holds exactly one more command than at the call, the tap
\* at (x + w div 2, y + h div 2); it is there before the wait_after sleep
\* starts, not before the hit, and the call returns True.
C5_TapAtCentreOfHit ==
    op = "tap_locator" =>
        /\ (pc = "tl_tap" => hit.found /\ chan = hist.chan0)
        /\ (pc \in {"tl_wait", "done"} /\ hit.found =>
               /\ hit = FindLocator(arg.loc, LastPulled.img)
               /\ chan = Append(hist.chan0,
                                Tap(<<hit.x + hit.w \div 2, hit.y + hit.h \div 2>>))
               /\ (pc = "done" => ret = RetBool(TRUE) /\ exc = "none"))
        /\ (Returned /\ ret = RetBool(TRUE) => hit.found)

\* Witness of C5: tap_locator found the hamburger icon at (900, 1800), size
\* 90 x 60, tapped (945, 1830), waited and returned True.
C5_Witness ==
    /\ op = "tap_locator" /\ pc = "done" /\ ret = RetBool(TRUE)
    /\ arg.wait_after > 0
    /\ hit.found /\ hit.x = 900 /\ hit.y = 1800 /\ hit.w = 90 /\ hit.h = 60
    /\ chan = <<Tap(<<945, 1830>>)>>

\* C6: while tap_locator has no hit the channel is as it was at the call,
\* and when the timeout ends the search the call has returned False, without
\* an exception and with the channel unchanged.
C6_MissSendsNothing ==
    op = "tap_locator" =>
        /\ (~hit.found => chan = hist.chan0)
        /\ (hist.timedOut =>
               /\ pc = "done" /\ ret = RetBool(FALSE) /\ exc = "none"
               /\ ~hit.found /\ chan = hist.chan0)

\* Witness of C6: tap_locator pulled frames, none matched, and it returned
\* False after its timeout.
C6_Witness ==
    /\ op = "tap_locator" /\ pc = "done" /\ ret = RetBool(FALSE)
    /\ hist.timedOut /\ Len(hist.pulled) >= 2 /\ Elapsed >= TapTimeout

\* C7: end_of_list_after_swipe pulls three frames and sends one command, the
\* swipe, after the first and the second pull and before the third, which
\* comes no sooner than after_swipe later; it returns True exactly when the
\* cp signatures of the first and the third frame are equal and their weight
\* signatures are equal.
C7_EndOfListComparesSignatures ==
    (op = "end_of_list_after_swipe" /\ Returned) =>
        /\ Len(hist.pulled) = 3
        /\ LET b == hist.pulled[1].img
               a == hist.pulled[3].img
           IN  ret = RetBool(/\ SignatureBytes(b.cp) = SignatureBytes(a.cp)
                             /\ SignatureBytes(b.wt) = SignatureBytes(a.wt))
        /\ Len(chan) = Len(hist.chan0) + 1
        /\ SubSeq(chan, 1, Len(hist.chan0)) = hist.chan0
        /\ chan[Len(chan)].cmd = "swipe"
        /\ hist.pulled[1].sent = Len(hist.chan0)
        /\ hist.pulled[2].sent = Len(hist.chan0)
        /\ hist.pulled[3].sent = Len(hist.chan0) + 1
        /\ hist.pulled[3].at >= hist.pulled[2].at + AfterSwipe

\* Witness of C7: a call that returned True on two frames whose cp regions
\* differ in pixels the signature does not see.
C7_Witness ==
    /\ op = "end_of_list_after_swipe" /\ pc = "done" /\ ret = RetBool(TRUE)
    /\ Len(hist.pulled) = 3
    /\ hist.pulled[1].img.cp # hist.pulled[3].img.cp

\* C11: swipe_by_name (alone or inside end_of_list_after_swipe) sends
\* nothing before its own frame pull and then exactly one command, the swipe
\* from (floor(W*sx), floor(H*sy)) to (floor(W*ex), floor(H*ey)) with the
\* configured duration, W and H being those of the frame pulled last, inside
\* that call.
C11_SwipePointsFromPulledFrame ==
    (op \in {"swipe_by_name", "end_of_list_after_swipe"} /\ arg.key \in DOMAIN Swipes) =>
        /\ (pc \in {"sbn_pull", "sbn_send", "eol_pull1", "eol_before"} => chan = hist.chan0)
        /\ (pc \in {"sbn_wait", "eol_pull2", "eol_after", "done"} /\ exc = "none" =>
               LET n  == IF op = "swipe_by_name" THEN 1 ELSE 2
                   f  == hist.pulled[n].img
                   sw == Swipes[arg.key]
               IN  /\ Len(hist.pulled) >= n
                   /\ op = "swipe_by_name" => Len(hist.pulled) = 1
                   /\ hist.pulled[n].sent = Len(hist.chan0)
                   /\ chan = Append(hist.chan0,
                          SwipeCmd((f.W * sw.start[1]) \div 100, (f.H * sw.start[2]) \div 100,
                                   (f.W * sw.end[1]) \div 100, (f.H * sw.end[2]) \div 100,
                                   sw.duration_ms)))

\* Witness of C11: on a 1080x2400 frame swipe_by_name("next_pokemon") sent
\* the swipe from (918, 1200) to (216, 1200) lasting 280 ms and returned.
C11_Witness ==
    /\ op = "swipe_by_name" /\ pc = "done" /\ exc = "none"
    /\ hist.pulled[1].img.W = 1080 /\ hist.pulled[1].img.H = 2400
    /\ chan = <<SwipeCmd(918, 1200, 216, 1200, 280)>>

\* C12: a swipe_by_name or end_of_list_after_swipe call with a name that is
\* not in cfg.swipes never sends a command and never returns a value; once
\* swipe_by_name has pulled its frame the call has ended with KeyError, and
\* nothing of the call runs after the key test (no second attempt, no wait,
\* no after-frame).
C12_UnknownSwipeIsFatal ==
    (op \in {"swipe_by_name", "end_of_list_after_swipe"} /\ arg.key \notin DOMAIN Swipes) =>
        LET n == IF op = "swipe_by_name" THEN 1 ELSE 2
        IN  /\ chan = hist.chan0
            /\ ret = RetUnset
            /\ Len(hist.pulled) <= n
            /\ pc \in {"sbn_pull", "sbn_send", "eol_pull1", "eol_before", "done"}
            /\ (pc = "done" /\ Len(hist.pulled) = n => exc = "KeyError")
            /\ (exc = "KeyError" => pc = "done" /\ Len(hist.pulled) = n)

\* Witness of C12: end_of_list_after_swipe("prev_pokemon") took its before
\* frame, swipe_by_name pulled its own frame and raised KeyError, and the
\* channel is empty.
C12_Witness ==
    /\ op = "end_of_list_after_swipe" /\ arg.key = "prev_pokemon"
    /\ pc = "done" /\ exc = "KeyError"
    /\ Len(hist.pulled) = 2 /\ before # <<>>
    /\ chan = <<>>

\* C13: a resolver call with a locator whose reference image is missing
\* ends in no other way than by FileNotFoundError, and it does so before its
\* timeout has elapsed.
C13_MissingTemplateFailsAtOnce ==
    (op \in Resolvers /\ arg.loc.file \notin DOMAIN Assets) =>
        /\ (pc = "done" => exc = "FileNotFoundError")
        /\ (exc = "FileNotFoundError" => Elapsed < arg.timeout)

\* The picture img shows the reference image of loc: at some candidate
\* scale the correlation reaches the locator's threshold.
Shows(img, loc) ==
    \E s \in ScaleSet : img.resp[loc.file][s].val >= loc.thresh

\* C14: exists never sends a command, whether it is running, has returned or
\* has failed; what it returns is a boolean, True exactly when one of the
\* frames it pulled shows the locator's reference image, and then that frame
\* is the last one it pulled.
C14_ExistsOnlyLooks ==
    op = "exists" =>
        /\ chan = hist.chan0
        /\ (Returned =>
               /\ ret = RetBool(\E i \in 1..Len(hist.pulled) : Shows(hist.pulled[i].img, arg.loc))
               /\ \A i \in 1..(Len(hist.pulled) - 1) : ~Shows(hist.pulled[i].img, arg.loc)
               /\ (~ret.v => hist.timedOut /\ Elapsed >= arg.timeout))

\* Witness of C14: exists missed on its first frame, saw the three-star
\* badge on a later one and returned True, the channel still empty.
C14_Witness ==
    /\ op = "exists" /\ pc = "done" /\ ret = RetBool(TRUE)
    /\ arg.loc.file = "three_stars_badge.png"
    /\ Len(hist.pulled) >= 2
    /\ ~Shows(hist.pulled[1].img, arg.loc)
    /\ chan = <<>>

\* C15: single_tap_center sends nothing before it has its frame; once it
\* has, it has pulled exactly one frame and the channel holds exactly one
\* more command than at the call, the tap at (W div 2, floor(0.65 * H)) of
\* that frame; it returns None.
C15_OneFrameOneTap ==
    op = "single_tap_center" =>
        /\ (pc = "stc_pull" => chan = hist.chan0 /\ hist.pulled = <<>>)
        /\ (pc = "stc_tap" => chan = hist.chan0 /\ Len(hist.pulled) = 1)
        /\ (pc \in {"stc_wait", "done"} /\ exc = "none" =>
               /\ Len(hist.pulled) = 1
               /\ LET f == hist.pulled[1].img
                  IN  chan = Append(hist.chan0, Tap(<<f.W \div 2, (65 * f.H) \div 100>>)))
        /\ (Returned => ret = RetNone)

\* Witness of C15: on a 720x1280 frame that came after a "no frame" result
\* single_tap_center tapped (360, 832), waited and returned.
C15_Witness ==
    /\ op = "single_tap_center" /\ pc = "done" /\ exc = "none"
    /\ arg.wait_after > 0 /\ hist.nones
    /\ hist.pulled[1].img.W = 720 /\ hist.pulled[1].img.H = 1280
    /\ chan = <<Tap(<<360, 832>>)>>

\* C17: in a wait_and_find call the poll waits are as many as the match
\* attempts that failed: none for a "no frame" result, one after each frame
\* without the target and before the next pull, which comes at least
\* poll_interval later. The first frame with the target ends the call, which
\* returns its hit and that frame with no pull and no wait after it.
C17_PollOnlyAfterMiss ==
    (op = "wait_and_find" /\ arg.loc.file \in DOMAIN Assets /\ exc = "none") =>
        LET n == Len(hist.pulled)
            misses == Cardinality({ i \in 1..n : ~Shows(hist.pulled[i].img, arg.loc) })
        IN  /\ \A i \in 1..(n - 1) :
                  /\ ~Shows(hist.pulled[i].img, arg.loc)
                  /\ hist.pulled[i + 1].at >= hist.pulled[i].at + arg.poll
            /\ (pc \in {"wf_check", "wf_pull"} => hist.sleeps = n /\ misses = n)
            /\ (pc \in {"wf_match", "wf_sleep"} => hist.sleeps = n - 1)
            /\ (pc = "wf_sleep" => misses = n)
            /\ (pc = "done" =>
                   IF n > 0 /\ Shows(LastPulled.img, arg.loc)
                   THEN /\ ret = RetPair(FindLocator(arg.loc, LastPulled.img), LastPulled.img)
                        /\ ret.hit.found
                        /\ hist.sleeps = n - 1
                        /\ ~hist.timedOut
                   ELSE ret = NotFound /\ hist.sleeps = n /\ hist.timedOut)

\* Witness of C17: wait_and_find met a "no frame" result, then a frame
\* without the hamburger icon, waited once, pulled a frame with the icon and
\* returned the hit at (900, 1800) with that frame.
C17_Witness ==
    /\ op = "wait_and_find" /\ pc = "done" /\ exc = "none"
    /\ arg.loc.file = "hamburger_icon.png"
    /\ hist.nones /\ Len(hist.pulled) = 2 /\ hist.sleeps = 1
    /\ ret.hit.found /\ ret.hit.x = 900 /\ ret.hit.y = 1800
    /\ ret.frame = hist.pulled[2].img

\* C18: the frame end_of_list_after_swipe takes its after-signature from was
\* captured after the swipe command had been sent.
C18_AfterFrameCapturedAfterSwipe ==
    (op = "end_of_list_after_swipe" /\ Returned) =>
        hist.pulled[3].capt >= Len(hist.chan0) + 1

------------------------------------------------------------------------------
(* Specification of the template matcher alone *)

MaxConf == 2        \* confidences of the matcher specification are 0..MaxConf

MaxOff == 2         \* match locations of the matcher specification are shifted by 0..MaxOff

\* A frame whose correlation with every reference image at scale s is v[s],
\* found in the resized frame at a place that tells the scales apart,
\* shifted by o.
Screen(v, o) ==
    [ok |-> TRUE, W |-> 1080, H |-> 2400, cp |-> 0, wt |-> 0,
     resp |-> [f \in DOMAIN Assets |->
                  [s \in ScaleSet |-> [val |-> v[s], x |-> s * s + o, y |-> 2 * s * s + o]]]]

InitMatch ==
    /\ src = [recs |-> <<>>, junk |-> 0, cut |-> 0]
    /\ stream = <<>>
    /\ pos = 0
    /\ closed = FALSE
    /\ returned = <<>>
    /\ now = 0
    /\ chan = <<>>
    /\ op = "none"
    /\ pc = "idle"
    /\ \E f \in {"hamburger_icon.png", "three_stars_badge.png"}, th \in 0..(MaxConf + 1) :
          arg = [file |-> f, thresh |-> th]
    /\ t0 = 0
    /\ hit = NoHit
    /\ \E v \in [ScaleSet -> 0..MaxConf], o \in 0..MaxOff : frame = Screen(v, o)
    /\ before = <<>>
    /\ ret = RetUnset
    /\ exc = "none"
    /\ hist = NoHist
    /\ ScriptOff

\* match_template(frame, template, thresh) with the default scales
CallMatchTemplate ==
    /\ pc = "idle"
    /\ op' = "match_template"
    /\ hit' = MatchTemplate(frame, arg.file, arg.thresh, Scales)
    /\ pc' = "done"
    /\ UNCHANGED <<now, chan, arg, t0, frame, before, ret, exc, hist>>
    /\ UNCHANGED transport
    /\ UNCHANGED script

NextMatch == CallMatchTemplate

SpecMatch == InitMatch /\ [][NextMatch]_vars

\* The confidence the matcher computed for scale number i.
ConfAt(i) == frame.resp[arg.file][Scales[i]].val

\* The scale number of the highest confidence, the first such in scan order.
BestScale ==
    CHOOSE i \in 1..Len(Scales) :
        /\ \A j \in 1..Len(Scales) : ConfAt(j) <= ConfAt(i)
        /\ \A j \in 1..(i - 1) : ConfAt(j) < ConfAt(i)

\* C8: match_template returns the result of the scale with the highest
\* confidence (the first one in scan order when several are equal) if that
\* confidence is >= thresh, and None otherwise.
C8_BestScaleOrNone ==
    (op = "match_template" /\ pc = "done") =>
        LET s == Scales[BestScale]
            r == frame.resp[arg.file][s]
        IN  IF ConfAt(BestScale) >= arg.thresh
            THEN /\ hit.found
                 /\ hit.val = ConfAt(BestScale)
                 /\ hit.val >= arg.thresh
                 /\ hit.w = (Assets[arg.file].tw * 10) \div s
                 /\ hit.h = (Assets[arg.file].th * 10) \div s
            ELSE hit = NoHit

\* Witness of C8: two scales tie for the highest confidence, the later one
\* in scan order is not the last, and the result is that of the earlier one.
C8_Witness ==
    /\ op = "match_template" /\ pc = "done" /\ hit.found
    /\ BestScale = 2
    /\ ConfAt(4) = ConfAt(2)
    /\ ConfAt(1) < ConfAt(2)
    /\ hit.w = (Assets[arg.file].tw * 10) \div Scales[2]

Quotient(q, v, s) ==
    \/ q = (v * 10) \div s
    \/ s = 11 /\ v % 11 = 0 /\ q = (v * 10) \div s - 1

------------------------------------------------------------------------------
(* The template matcher on frames of several sizes *)

\* Sizes <<W, H>> of the frames: the two screens, and small frames around the
\* sizes of the reference images.
FrameSizes ==
    { <<1080, 2400>>, <<720, 1280>>, <<150, 100>>, <<113, 75>>, <<100, 100>>,
      <<100, 67>>, <<120, 48>>, <<90, 60>> }

\* Where the best correlation lies in the result of cv2.matchTemplate.
Places == {"origin", "middle", "far"}

Abs(a) == IF a < 0 THEN -a ELSE a

\* The place of the best correlation for a size x size search of a
\* tsize x tsize template: the result has |size - tsize| + 1 places in each
\* direction.
PlaceIn(place, size, tsize) ==
    CASE place = "origin" -> 0
      [] place = "middle" -> Abs(size - tsize) \div 2
      [] place = "far"    -> Abs(size - tsize)

\* A frame of W x H whose correlation with every reference image at scale s
\* is v[s], found at the given place of the result.
ScreenOf(W, H, v, place) ==
    [ok |-> TRUE, W |-> W, H |-> H, cp |-> 0, wt |-> 0,
     resp |-> [f \in DOMAIN Assets |->
                  [s \in ScaleSet |->
                      [val |-> v[s],
                       x |-> PlaceIn(place, Max(1, (W * s) \div 10), Assets[f].tw),
                       y |-> PlaceIn(place, Max(1, (H * s) \div 10), Assets[f].th)]]]]

\* match_template is given a frame and a reference image that is not larger
\* than the frame.
InitFit ==
    /\ src = [recs |-> <<>>, junk |-> 0, cut |-> 0]
    /\ stream = <<>>
    /\ pos = 0
    /\ closed = FALSE
    /\ returned = <<>>
    /\ now = 0
    /\ chan = <<>>
    /\ op = "none"
    /\ pc = "idle"
    /\ t0 = 0
    /\ hit = NoHit
    /\ \E f \in {"hamburger_icon.png", "three_stars_badge.png"}, th \in {0, MaxConf},
          sz \in FrameSizes, v \in [ScaleSet -> 0..MaxConf], place \in Places :
          /\ Fits(sz[1], sz[2], Assets[f].tw, Assets[f].th)
          /\ arg = [file |-> f, thresh |-> th]
          /\ frame = ScreenOf(sz[1], sz[2], v, place)
    /\ before = <<>>
    /\ ret = RetUnset
    /\ exc = "none"
    /\ hist = NoHist
    /\ ScriptOff

SpecFit == InitFit /\ [][NextMatch]_vars

\* The size of the frame as resized for scale s.
Resized(s) == [w |-> Max(1, (frame.W * s) \div 10), h |-> Max(1, (frame.H * s) \div 10)]

\* C26: when the reference image fits in the frame as resized for the
\* winning scale, the box match_template returns lies inside the original
\* frame, 0 <= x, x + w <= W, 0 <= y, y + h <= H, and the point center_of
\* computes from it is a pixel of the frame, 0 <= tap_x < W and
\* 0 <= tap_y < H.
C26_BoxInsideFrame ==
    (op = "match_template" /\ pc = "done" /\ hit.found) =>
        LET s   == Scales[BestScale]
            t   == Assets[arg.file]
            tap == CenterOf(hit)
        IN  Fits(Resized(s).w, Resized(s).h, t.tw, t.th) =>
               /\ 0 <= hit.x /\ hit.x + hit.w <= frame.W
               /\ 0 <= hit.y /\ hit.y + hit.h <= frame.H
               /\ 0 <= tap[1] /\ tap[1] < frame.W
               /\ 0 <= tap[2] /\ tap[2] < frame.H

\* Witness of C26: scale 1.2 won on a 100 x 67 frame with the best
\* correlation in the far corner of the result, (30, 20) of the 120 x 80
\* resized frame; the box is (25, 16, 75, 50), which ends at x = 100, and the
\* tap point is (62, 41).
C26_Witness ==
    /\ op = "match_template" /\ pc = "done" /\ hit.found
    /\ frame.W = 100 /\ frame.H = 67 /\ arg.file = "hamburger_icon.png"
    /\ Scales[BestScale] = 12
    /\ frame.resp[arg.file][12].x = 30 /\ frame.resp[arg.file][12].y = 20
    /\ hit.x = 25 /\ hit.w = 75 /\ hit.x + hit.w = frame.W
    /\ CenterOf(hit) = <<62, 41>>

\* C27: for a frame and a reference image not larger than the frame in
\* width and height, match_template raises no error: it returns a result or
\* None.
C27_NoErrorAtDownScales ==
    (op = "match_template" /\ pc = "done"
        /\ Fits(frame.W, frame.H, Assets[arg.file].tw, Assets[arg.file].th)) =>
        "error" \notin DOMAIN hit

------------------------------------------------------------------------------
(* Properties of tag_three_star_pass *)

\* The state the i-th assignment to state sets when the pass runs through
\* OPEN_FIRST, OPEN_MENU and then the cycle TAP_TO_STATS, EVAL_STARS, NEXT.
Expected(i) ==
    IF i = 1 THEN "OPEN_FIRST"
    ELSE IF i = 2 THEN "OPEN_MENU"
    ELSE <<"TAP_TO_STATS", "EVAL_STARS", "NEXT">>[((i - 3) % 3) + 1]

\* C20: the values state takes are, in order, OPEN_FIRST, OPEN_MENU, then
\* TAP_TO_STATS, EVAL_STARS, NEXT one or more times, then DONE, as far as
\* the run gets; DONE comes last, right after a NEXT, and a pass that
\* returns from its loop has reached it. state never holds one of the six
\* members without a branch, and the loop is never at its top in such a
\* state.
C20_StateSequence ==
    LET q == plog.states
        n == Len(q)
    IN  /\ state = (IF n = 0 THEN "unset" ELSE q[n])
        /\ state \notin Unhandled
        /\ \A i \in 1..n :
              \/ q[i] = Expected(i)
              \/ q[i] = "DONE" /\ i = n /\ i >= 6 /\ q[i - 1] = "NEXT"
        /\ (ppc = "loop" => state \in Handled)
        /\ (ppc = "returned" /\ n > 0 => state = "DONE")
        /\ (ppc \in {"opl1", "opl2", "start", "assert"} => n = 0)

\* Witness of C20: a pass that went twice through TAP_TO_STATS, EVAL_STARS,
\* NEXT, found the end of the list and returned.
C20_Witness ==
    /\ ppc = "returned"
    /\ plog.states = <<"OPEN_FIRST", "OPEN_MENU", "TAP_TO_STATS", "EVAL_STARS", "NEXT",
                       "TAP_TO_STATS", "EVAL_STARS", "NEXT", "DONE">>

\* The calls of the pass that look for a locator (tap_locator, exists).
Lookups == { x \in DOMAIN Sites : Sites[x].f \in {"tap_locator", "exists"} }

\* DONE is entered only from NEXT, on end_of_list_after_swipe returning True
\* as the only call of that step, and with DONE entered the pass sends no
\* command and pulls no frame any more.
DoneOnlyAtEndOfList ==
    LET q == plog.states
        n == Len(q)
    IN  state = "DONE" =>
            /\ n >= 2 /\ q[n - 1] = "NEXT"
            /\ plog.trail = <<"next">>
            /\ plog.last.site = "next" /\ plog.last.ret = RetBool(TRUE)
            /\ Len(plog.last.sent) = 1 /\ plog.last.sent[1].cmd = "swipe"
            /\ ppc \in {"loop", "returned"}
            /\ pc = "idle" /\ op = "none"
            /\ chan = <<>> /\ hist.pulled = <<>> /\ pos = 0

\* The pass has been ended by a lookup that returned False.
EndedByFailedLookup ==
    /\ ppc \in {"returned", "failed"}
    /\ exc \in {"none", "AssertionError"}
    /\ plog.last.site \in Lookups
    /\ plog.last.ret = RetBool(FALSE)

\* C21 as stated: DONE is entered only from NEXT on end_of_list_after_swipe
\* returning True and nothing is sent or pulled after it, and no lookup that
\* returns False ever ends the pass.
C21_NoFailedLookupEndsPass ==
    /\ DoneOnlyAtEndOfList
    /\ ~EndedByFailedLookup

\* C21: DONE is entered only from NEXT and only when end_of_list_after_swipe
\* returned True in that step, and once DONE is entered the loop exits with
\* no further command and no further frame pull. Inside the state loop no
\* lookup that returns False ends the pass: the loop is left only through
\* DONE or by an exception that leaves a driver call. Before the loop a
\* tap_locator of open_pokemon_list that returns False does end the pass, by
\* the AssertionError.
C21_DoneOnlyFromNext ==
    /\ DoneOnlyAtEndOfList
    /\ (EndedByFailedLookup =>
           /\ plog.states = <<>>
           /\ plog.last.site \in {"opl1", "opl2"}
           /\ ppc = "failed" /\ exc = "AssertionError")
    /\ (ppc = "returned" /\ plog.states # <<>> => state = "DONE")
    /\ (ppc = "failed" /\ plog.states # <<>> =>
           pc = "done" /\ exc \notin {"none", "AssertionError"})

\* Witness of C21: the pass went through NEXT twice, the second
\* end_of_list_after_swipe sent its swipe and returned True, DONE was entered
\* and the pass returned.
C21_Witness ==
    /\ ppc = "returned" /\ state = "DONE"
    /\ Times("NEXT") = 2
    /\ plog.last.site = "next" /\ plog.last.ret = RetBool(TRUE)
    /\ plog.last.sent = <<SwipeCmd(918, 1200, 216, 1200, 280)>>

\* The taps of tag_three_star_once and the reference images only they use.
TagSites == {"tag1", "tag2", "tag3", "tag4"}
TagFiles == {"tag_button.png", "tag_three_star.png", "tag_close.png"}

\* C22: the taps of tag_three_star_once are attempted only in an EVAL_STARS
\* step in which exists(three_stars_badge) returned True, after exactly one
\* single_tap_center, which sent its one tap; the exists call sends nothing,
\* and when it returns False the step ends with that call, no command sent.
C22_TagOnlyAfterBadge ==
    LET tr == plog.trail
    IN  /\ (ppc \in TagSites \cup {"exit"} =>
               /\ state = "EVAL_STARS"
               /\ "eval" \in plog.trues
               /\ tr # <<>> /\ tr[1] = "eval")
        /\ (ppc = "exit" =>
               /\ tr = <<"eval">>
               /\ plog.last.site = "eval" /\ plog.last.sent = <<>>)
        /\ (ppc \in TagSites =>
               /\ Len(tr) >= 2 /\ tr[2] = "exit"
               /\ \A i \in 3..Len(tr) : tr[i] = <<"tag1", "tag2", "tag3">>[i - 2]
               /\ ppc = <<"tag1", "tag2", "tag3", "tag4">>[Len(tr) - 1])
        /\ (ppc = "tag1" =>
               /\ plog.last.site = "exit" /\ plog.last.ret = RetNone
               /\ Len(plog.last.sent) = 1 /\ plog.last.sent[1].cmd = "tap")
        /\ (op = "tap_locator" /\ (arg.loc.file \in TagFiles \/ state = "EVAL_STARS") =>
               \/ ppc \in TagSites
               \/ ppc = "failed" /\ Len(tr) >= 2 /\ tr[1] = "eval" /\ tr[2] = "exit")
        /\ (op = "single_tap_center" /\ state = "EVAL_STARS" =>
               \/ ppc = "exit"
               \/ ppc = "failed" /\ tr = <<"eval">> /\ plog.trues = {"eval"})
        /\ (ppc = "eval" => state = "EVAL_STARS" /\ chan = <<>> /\ tr = <<>>)
        /\ (ppc = "loop" /\ plog.last.site = "eval" =>
               /\ state = "NEXT"
               /\ plog.last.ret = RetBool(FALSE) /\ plog.last.sent = <<>>
               /\ tr = <<"eval">> /\ plog.trues = {})
        /\ (ppc = "loop" /\ state = "NEXT" =>
               tr \in {<<"eval">>, <<"eval", "exit", "tag1", "tag2", "tag3", "tag4">>})

\* Witness of C22: the badge was seen, the appraisal was left by
\* single_tap_center, and tag_three_star_once is about to send its last tap,
\* for tag_close, having found it.
C22_Witness ==
    /\ ppc = "tag4" /\ op = "tap_locator" /\ arg.loc.file = "tag_close.png"
    /\ pc = "tl_tap"
    /\ plog.trail = <<"eval", "exit", "tag1", "tag2", "tag3">>
    /\ "eval" \in plog.trues

\* Every frame pull eventually returns a frame.
FramesCome == [](Pulling => <>(~Pulling /\ exc = "none"))

\* A call of end_of_list_after_swipe has returned True.
EndOfList == ppc = "next" /\ pc = "done" /\ exc = "none" /\ ret = RetBool(TRUE)

\* The model follows the pass no further: MaxRounds swipes did not end the
\* list.
Capped ==
    /\ ppc = "next" /\ pc = "done" /\ exc = "none" /\ ret = RetBool(FALSE)
    /\ Times("NEXT") > MaxRounds

\* Between two steps of the same state there is a NEXT step, and the
\* end_of_list_after_swipe call of a NEXT step that went on has sent one
\* command, the swipe.
SwipeBetweenRepeats ==
    LET q == plog.states
    IN  /\ \A i, j \in 1..Len(q) :
              i < j /\ q[i] = q[j] => \E k \in i..(j - 1) : q[k] = "NEXT"
        /\ (plog.trail # <<>> /\ plog.trail[1] = "next" =>
               state \in {"NEXT", "TAP_TO_STATS", "DONE"})
        /\ (ppc = "reopen1" \/ plog.last.site = "next" =>
               /\ plog.last.site = "next"
               /\ Len(plog.last.sent) = 1 /\ plog.last.sent[1].cmd = "swipe")
        /\ (ppc = "loop" /\ state = "TAP_TO_STATS" /\ Len(q) > 3 =>
               plog.trail # <<>> /\ plog.trail[1] = "next")

\* A driver call of the pass pulls no more frames and waits no more poll
\* intervals than its timeout has room for (end_of_list_after_swipe pulls
\* three frames).
StepBounded ==
    ppc \in DOMAIN Sites =>
        /\ Len(hist.pulled) <= Max(3, TapTimeout \div DefaultPoll)
        /\ hist.sleeps <= TapTimeout \div DefaultPoll

\* C23: provided every frame pull eventually returns a frame and some call
\* of end_of_list_after_swipe eventually returns True, tag_three_star_pass
\* eventually has state DONE and has returned. Provided the frames come, the
\* pass does not go on for ever: it returns, or is left by an exception, or
\* has swiped more than MaxRounds times without finding the end of the list,
\* where the model follows it no further. Each driver call is bounded in the
\* frames it pulls and the poll waits it makes, and no state is repeated
\* without a NEXT step, with its swipe, in between.
C23_PassTerminates ==
    /\ (FramesCome /\ <>EndOfList => <>(ppc = "returned" /\ state = "DONE"))
    /\ (FramesCome => <>(ppc \in {"returned", "failed"} \/ Capped))
    /\ [](SwipeBetweenRepeats /\ StepBounded)

\* Witness of C23: the pass went through TAP_TO_STATS, EVAL_STARS and NEXT
\* three times before the end of the list was found, and returned.
C23_Witness ==
    /\ ppc = "returned" /\ state = "DONE"
    /\ Times("TAP_TO_STATS") = 3 /\ Times("NEXT") = 3

\* C24: the state loop is entered only with playing_pogo and both taps of
\* open_pokemon_list having returned True. When playing_pogo returns False
\* (the game not in the foreground, start_app run through adb, the game
\* still not in the foreground) the pass returns with no command sent on the
\* input channel, no frame pulled and no driver call made. When a tap of
\* open_pokemon_list returns False, the second tap is not attempted after a
\* failed first, no state is assigned and the pass is left by an
\* AssertionError.
C24_LoopOnlyAfterListOpened ==
    LET q == plog.states
    IN  /\ (q = <<>> => ppc \in {"start", "opl1", "opl2", "assert", "returned", "failed"})
        /\ (q # <<>> => q[1] = "OPEN_FIRST")
        /\ (ppc = "loop" /\ Len(q) = 1 =>
               /\ plog.trail = <<"playing_pogo", "opl1", "opl2">>
               /\ plog.trues = {"playing_pogo", "opl1", "opl2"})
        /\ (ppc \in {"opl1", "opl2", "assert"} => "playing_pogo" \in plog.trues)
        /\ (ppc = "opl2" => plog.trail = <<"playing_pogo", "opl1">> /\ "opl1" \in plog.trues)
        /\ (plog.last.site = "playing_pogo" /\ plog.last.ret = RetBool(FALSE) =>
               /\ ppc = "returned"
               /\ q = <<>> /\ state = "unset"
               /\ plog.trail = <<"playing_pogo">>
               /\ plog.last.adb = <<"is_foreground", "start_app", "is_foreground">>
               /\ op = "none" /\ pc = "idle"
               /\ chan = <<>> /\ hist.pulled = <<>> /\ pos = 0 /\ stream = <<>>)
        /\ (ppc = "returned" /\ q = <<>> =>
               plog.last.site = "playing_pogo" /\ plog.last.ret = RetBool(FALSE))
        /\ (ppc = "assert" \/ exc = "AssertionError" =>
               /\ q = <<>> /\ state = "unset"
               /\ plog.last.site \in {"opl1", "opl2"}
               /\ plog.last.ret = RetBool(FALSE) /\ plog.last.sent = <<>>
               /\ plog.trail = (IF plog.last.site = "opl1" THEN <<"playing_pogo", "opl1">>
                                 ELSE <<"playing_pogo", "opl1", "opl2">>)
               /\ plog.trues = (IF plog.last.site = "opl1" THEN {"playing_pogo"}
                                 ELSE {"playing_pogo", "opl1"}))
        /\ (exc = "AssertionError" => ppc = "failed")
        /\ (ppc = "failed" /\ plog.last.site \in {"opl1", "opl2"}
               /\ plog.last.ret = RetBool(FALSE) =>
               exc = "AssertionError")

\* Witness of C24: playing_pogo returned True, the main menu icon was
\* tapped, the Pokemon entry of the menu was not found within the tap
\* timeout, and the pass is left by the AssertionError with no state
\* assigned.
C24_Witness ==
    /\ ppc = "failed" /\ exc = "AssertionError"
    /\ plog.trail = <<"playing_pogo", "opl1", "opl2">>
    /\ plog.last.site = "opl2" /\ plog.last.ret = RetBool(FALSE)
    /\ plog.states = <<>>

\* C25: in NEXT, after end_of_list_after_swipe returned False, the pass
\* makes one tap_locator call for the hamburger icon; the tap_locator call
\* for the appraise button is made only in a NEXT step whose hamburger call
\* returned True (having sent its tap); when the hamburger call returned
\* False it sent nothing and is the last call of the step; state becomes
\* TAP_TO_STATS in both cases.
C25_ReopenHeuristic ==
    LET q  == plog.states
        n  == Len(q)
        tr == plog.trail
    IN  /\ (ppc = "reopen1" =>
               /\ state = "NEXT" /\ tr = <<"next">>
               /\ plog.last.site = "next" /\ plog.last.ret = RetBool(FALSE)
               /\ (op = "tap_locator" => arg.loc.file = "hamburger_icon.png"))
        /\ (ppc = "reopen2" =>
               /\ state = "NEXT" /\ tr = <<"next", "reopen1">>
               /\ "reopen1" \in plog.trues
               /\ plog.last.site = "reopen1" /\ plog.last.ret = RetBool(TRUE)
               /\ Len(plog.last.sent) = 1 /\ plog.last.sent[1].cmd = "tap")
        /\ (op = "tap_locator" /\ arg.loc.file = "appraise_button.png" /\ state = "NEXT" =>
               /\ tr = <<"next", "reopen1">> /\ "reopen1" \in plog.trues
               /\ ppc \in {"reopen2", "failed"})
        /\ ~(state = "NEXT" /\ plog.last.site = "reopen1" /\ plog.last.ret = RetBool(FALSE))
        /\ (ppc = "loop" /\ state = "TAP_TO_STATS" /\ n > 3 =>
               /\ q[n - 1] = "NEXT"
               /\ \/ /\ tr = <<"next", "reopen1">>
                     /\ plog.trues = {}
                     /\ plog.last.site = "reopen1" /\ plog.last.ret = RetBool(FALSE)
                     /\ plog.last.sent = <<>>
                  \/ /\ tr = <<"next", "reopen1", "reopen2">>
                     /\ "reopen1" \in plog.trues
                     /\ plog.last.site = "reopen2")
        /\ (n > 3 /\ q[n] = "TAP_TO_STATS" => q[n - 1] = "NEXT")

\* Witness of C25: the swipe changed the screen, the hamburger icon was not
\* found, nothing was sent for it, the appraise button was not looked for and
\* state is TAP_TO_STATS again.
C25_Witness ==
    /\ ppc = "loop" /\ state = "TAP_TO_STATS"
    /\ plog.trail = <<"next", "reopen1">>
    /\ plog.last.site = "reopen1" /\ plog.last.ret = RetBool(FALSE)
    /\ plog.last.sent = <<>>

====
